---- MODULE Spec2Model ----
(***************************************************************************)
(* Dog Profiles API (src/main.py): a read-only HTTP service that serves    *)
(* the rows of one spreadsheet through a one-entry TTL cache, reshaped     *)
(* into nested profiles, with name filters and a lookup by id.             *)
(*                                                                         *)
(* Two specifications share the module:                                    *)
(*   Spec   the serving process: start-up, the clock, the remote sheet,    *)
(*          the cache and concurrent request threads;                      *)
(*   SpecQ  the pure part: map_row_to_dog and the bodies of the two        *)
(*          handlers applied to bounded row sequences and parameters.      *)
(***************************************************************************)
EXTENDS Integers, Sequences, FiniteSets, TLC

(* ------------------------------ bounds -------------------------------- *)
\* longest row sequence that SpecQ enumerates
MaxRows == 2
\* largest configured cache time-to-live, in clock ticks
MaxTTL == 2
\* number of request threads of the serving process
NThreads == 2

(* ------------------------- Python values ------------------------------ *)
\* A cell value as the sheet client hands it over: a string (a sequence of
\* one-character strings), a number, or None (what dict.get answers for a
\* header the row does not have).
None == [t |-> "none"]
S(s) == [t |-> "str", v |-> s]
N(n) == [t |-> "num", v |-> n]

\* Python truthiness: None, "" and 0 are falsy.
Truthy(x) ==
    CASE x.t = "none" -> FALSE
      [] x.t = "str"  -> x.v # <<>>
      [] x.t = "num"  -> x.v # 0

\* a or b
Or(a, b) == IF Truthy(a) THEN a ELSE b

Digits == <<"0", "1", "2", "3", "4", "5", "6", "7", "8", "9">>

\* the decimal digits of a natural number, as str(int) writes them
RECURSIVE DecimalStr(_)
DecimalStr(n) ==
    IF n < 10 THEN <<Digits[n + 1]>>
    ELSE DecimalStr(n \div 10) \o <<Digits[(n % 10) + 1]>>

\* str(x) for a string or a natural number
str(x) == IF x.t = "num" THEN DecimalStr(x.v) ELSE x.v

UpperChars == <<"A", "B", "C", "D", "E", "F", "G", "H", "I", "J", "K", "L", "M",
                "N", "O", "P", "Q", "R", "S", "T", "U", "V", "W", "X", "Y", "Z">>
LowerChars == <<"a", "b", "c", "d", "e", "f", "g", "h", "i", "j", "k", "l", "m",
                "n", "o", "p", "q", "r", "s", "t", "u", "v", "w", "x", "y", "z">>

LowerChar(c) ==
    IF \E i \in DOMAIN UpperChars : UpperChars[i] = c
    THEN LowerChars[CHOOSE i \in DOMAIN UpperChars : UpperChars[i] = c]
    ELSE c

\* s.lower()
lower(s) == [i \in DOMAIN s |-> LowerChar(s[i])]

\* a in b, for strings
IsSubstring(a, b) ==
    \E i \in 0 .. (Len(b) - Len(a)) : SubSeq(b, i + 1, i + Len(a)) = a

\* row.get(key)
row_get(row, key) == IF key \in DOMAIN row THEN row[key] ELSE None

(* ----------------------------- mapping -------------------------------- *)
\* row.get("dog_id") or str(idx)
ResolveId(row, idx) == Or(row_get(row, "dog_id"), S(DecimalStr(idx)))

map_row_to_dog(row, idx) ==
    [dog_id |-> ResolveId(row, idx),
     dog |-> [name |-> row_get(row, "Name"),
              age |-> row_get(row, "Age"),
              sex |-> row_get(row, "Sex"),
              photo_url |-> row_get(row, "Photo")],
     owner |-> [name |-> row_get(row, "Pet owner's name"),
                phone |-> row_get(row, "Pet owner's phone"),
                preferred_contact |-> row_get(row, "Preferred contact method")],
     feeding |-> [times |-> row_get(row, "Feeding times (you can choose more than one answer)"),
                  amount |-> row_get(row, "  Amount of food per meal  "),
                  allergies |-> row_get(row, "Food or environmental intolerances "),
                  allergies_detail |-> row_get(row, "If yes, please details of any food or environmental intolerances:")],
     walks |-> [frequency |-> row_get(row, "Going for walks (you can choose more than one answer)"),
                duration |-> row_get(row, "Approximate duration of each walk (in minutes): ")],
     behavior |-> [barks_in_reaction_to |-> row_get(row, "Barks in reaction to (If none, please just write 'None'):"),
                   afraid_of |-> row_get(row, "Is afraid of (If none, please just write 'None'):"),
                   owners_remark |-> row_get(row, "Some remarks we need to know:"),
                   medical_conditions |-> row_get(row, "Medical conditions / needs (optional)")]]

(* ------------------------- handler bodies ----------------------------- *)
\* The outcome of evaluating
\*     flt and flt.lower() not in (field or "").lower()
\* "skip" (the row is dropped), "keep", or "raise": a non-zero number has
\* no lower() and the call raises AttributeError.
FilterTest(flt, field) ==
    IF ~Truthy(flt) THEN "keep"
    ELSE LET f == Or(field, S(<<>>)) IN
         IF f.t # "str" THEN "raise"
         ELSE IF IsSubstring(lower(flt.v), lower(f.v)) THEN "keep" ELSE "skip"

\* An exception that no handler catches: the framework answers 500.
Unhandled(kind) == [status |-> 500, unhandled |-> kind]

\* get_dogs after the rows are there: the loop over enumerate(rows, start=1)
RECURSIVE FilterLoop(_, _, _, _, _)
FilterLoop(rows, idx, dog_name, owner_name, filtered) ==
    IF idx > Len(rows) THEN [status |-> 200, list |-> filtered]
    ELSE LET dog_obj == map_row_to_dog(rows[idx], idx)
             byDog == FilterTest(dog_name, dog_obj.dog.name)
             byOwner == FilterTest(owner_name, dog_obj.owner.name)
         IN  IF byDog = "raise" THEN Unhandled("AttributeError")
             ELSE IF byDog = "skip"
                  THEN FilterLoop(rows, idx + 1, dog_name, owner_name, filtered)
             ELSE IF byOwner = "raise" THEN Unhandled("AttributeError")
             ELSE IF byOwner = "skip"
                  THEN FilterLoop(rows, idx + 1, dog_name, owner_name, filtered)
             ELSE FilterLoop(rows, idx + 1, dog_name, owner_name,
                             Append(filtered, dog_obj))

get_dogs_body(rows, dog_name, owner_name) ==
    FilterLoop(rows, 1, dog_name, owner_name, <<>>)

NotFound == [status |-> 404, detail |-> <<"Dog not found">>]

\* a scan that answers the last match instead of the first
LookupLoopLast(rows, idx, dog_id) ==
    LET hits == {i \in idx .. Len(rows) : str(ResolveId(rows[i], i)) = dog_id} IN
    IF hits = {} THEN NotFound
    ELSE LET i == CHOOSE i \in hits : \A j \in hits : j <= i
         IN  [status |-> 200, item |-> map_row_to_dog(rows[i], i)]

\* get_dog after the rows are there: the scan over enumerate(rows, start=1)
RECURSIVE LookupLoop(_, _, _)
LookupLoop(rows, idx, dog_id) ==
    IF idx > Len(rows) THEN NotFound
    ELSE LET row_id == ResolveId(rows[idx], idx) IN
         IF str(row_id) = dog_id
         THEN [status |-> 200, item |-> map_row_to_dog(rows[idx], idx)]
         ELSE LookupLoop(rows, idx + 1, dog_id)

get_dog_body(rows, dog_id) == LookupLoop(rows, 1, dog_id)

(* ---------------------------- SpecQ data ------------------------------ *)
Rex == <<"R", "e", "x">>
TRexJr == <<"T", "-", "R", "e", "x", " ", "J", "r">>
Jane == <<"J", "a", "n", "e">>

\* the cells a row of the bounded universe may hold under each header
DogIdCells == {None, S(<<>>), S(<<"2">>), N(2)}
\* (name, owner's name) pairs
NameCells == {<<None, S(Jane)>>, <<S(TRexJr), S(Jane)>>, <<N(7), S(Jane)>>, <<S(TRexJr), N(5)>>}

MkRow(id, name, owner) ==
    LET base == ("Name" :> name) @@ ("Pet owner's name" :> owner) @@ ("Age" :> N(3))
        named == IF name.t = "none" THEN [k \in DOMAIN base \ {"Name"} |-> base[k]] ELSE base
    IN  IF id.t = "none" THEN named ELSE ("dog_id" :> id) @@ named

RowUniverse == {MkRow(id, names[1], names[2]) : id \in DogIdCells, names \in NameCells}

RECURSIVE SeqsUpTo(_, _)
SeqsUpTo(set, n) ==
    IF n = 0 THEN {<<>>}
    ELSE LET shorter == SeqsUpTo(set, n - 1) IN
         shorter \cup {Append(s, x) : s \in {q \in shorter : Len(q) = n - 1}, x \in set}

RowSeqs == SeqsUpTo(RowUniverse, MaxRows)

\* query parameters: absent (None), empty, or a string
DogNameParams == {None, S(<<>>), S(<<"R", "e", "x">>), S(<<"j", "a">>)}
OwnerNameParams == {None, S(<<"A", "N">>), S(<<"x">>)}
IdParams == {<<"1">>, <<"2">>, <<"0">>}

(* --------------------------- configuration ---------------------------- *)
\* what the environment may hold under SPREADSHEET_ID: unset, empty, a key
SpreadsheetIds == {None, S(<<>>), S(<<"k", "e", "y">>)}
\* what it may hold under GOOGLE_SERVICE_KEY: unset, a string that is not
\* JSON, or a usable credential document
ServiceKeys == {"unset", "malformed", "valid"}
\* ways the remote calls (open_by_key, sheet1, get_all_records) fail
RemoteFailures == {"APIError(revoked credentials)", "SpreadsheetNotFound"}

Threads == 1 .. NThreads
\* the clock runs until one tick after an entry stored at 0 has expired
MaxTime(ttlv) == ttlv + 1

RowA == MkRow(N(2), S(Rex), S(Jane))
RowB == MkRow(S(<<>>), S(TRexJr), S(Jane))
\* the contents the remote sheet moves between
SheetVersions == {<<RowA>>, <<RowB, RowA>>}

NoParam == <<>>
Requests ==
    {[op |-> "dogs", dog_name |-> S(<<"r", "E", "x">>), owner_name |-> S(<<"j">>), dog_id |-> NoParam],
     [op |-> "dog", dog_name |-> None, owner_name |-> None, dog_id |-> <<"1">>]}
NoRequest == [op |-> "none", dog_name |-> None, owner_name |-> None, dog_id |-> NoParam]

VARIABLES
    spreadsheetId,  \* os.getenv("SPREADSHEET_ID")
    serviceKey,     \* os.getenv("GOOGLE_SERVICE_KEY")
    ttl,            \* CACHE_TTL_SECONDS
    proc,           \* "init" (module being loaded), "refused", "serving"
    now,            \* the monotonic clock the cache reads
    sheet,          \* rows of the remote spreadsheet
    cache,          \* the one entry of TTLCache(maxsize=1, ttl)
    lastFetch,      \* history: result and time of the last successful fetch
    pc,             \* per thread: "idle", "fetch" (cache miss), "remote" (call in flight)
    req,            \* per thread: the request being served / last served
    snap,           \* per thread: the rows the remote call in flight has read
    got,            \* per thread: what get_all_rows returned, and its provenance
    exc,            \* per thread: what get_all_rows raised
    resp,           \* per thread: the response sent
    qrows, qcall, qres  \* SpecQ: the rows, the call made and its result

serverVars == <<spreadsheetId, serviceKey, ttl, proc, now, sheet, cache, lastFetch,
                pc, req, snap, got, exc, resp>>
queryVars == <<qrows, qcall, qres>>
vars == <<serverVars, queryVars>>

(* ------------------------------ the cache ----------------------------- *)
\* get_all_rows is wrapped by cached(cache) with no lock: a call looks the
\* single key up, and on a miss calls the function and stores what it
\* returns.  The lookup and the store are each one step of the model; the
\* stored value is one reference to the list of records.
EmptyCache == [has |-> FALSE, val |-> <<>>, exp |-> 0]

\* an entry that never expires
cache_hit_forever(c, time) == c.has

\* TTLCache.__getitem__: the entry is there and the clock is before its expiry
cache_hit(c, time) == c.has /\ time < c.exp

\* a store that extends the rows already cached
cache_store_extend(c, rows, time, ttlv) ==
    [has |-> TRUE, val |-> c.val \o rows, exp |-> time + ttlv]

\* a store whose entry outlives the configured time-to-live
cache_store_slack(c, rows, time, ttlv) ==
    [has |-> TRUE, val |-> rows, exp |-> time + ttlv + 2]

\* cache[key] = rows: the single entry is replaced and stamped with the clock
cache_store(c, rows, time, ttlv) ==
    [has |-> TRUE, val |-> rows, exp |-> time + ttlv]

(* ------------------------------ the fetch ----------------------------- *)
NoExc == [raised |-> FALSE, msg |-> <<>>, cause |-> ""]
Raised(msg, cause) == [raised |-> TRUE, msg |-> msg, cause |-> cause]

\* get_gspread_client: every exception inside is re-raised as
\* RuntimeError("Failed to create gspread client: " + repr(e))
get_gspread_client(key) ==
    LET inner == CASE key = "unset" ->
                        "RuntimeError('Missing GOOGLE_SERVICE_KEY environment variable')"
                   [] key = "malformed" -> "JSONDecodeError('Expecting value')"
                   [] OTHER -> ""
    IN  IF key = "valid" THEN NoExc
        ELSE Raised(<<"Failed to create gspread client: ", inner>>, inner)

\* a handler that hides what went wrong
http_fetch_failed_opaque(e) == [status |-> 500, detail |-> <<"Failed to read sheet">>]

\* except Exception as e: raise HTTPException(500, f"Failed to read sheet: {str(e)}")
http_fetch_failed(e) == [status |-> 500, detail |-> <<"Failed to read sheet: ">> \o e.msg]

\* the rest of the handler, once get_all_rows has returned rows
Handler(r, rows) ==
    IF r.op = "dogs" THEN get_dogs_body(rows, r.dog_name, r.owner_name)
    ELSE get_dog_body(rows, r.dog_id)

\* rows: what get_all_rows returned; own: this call fetched them itself;
\* late: they were fetched more than one TTL before this call read the cache
NoGot == [has |-> FALSE, rows |-> <<>>, own |-> FALSE, late |-> FALSE]
NoResp == [status |-> 0]

QueryIdle ==
    /\ qrows = <<>>
    /\ qcall = [op |-> "none"]
    /\ qres = NoResp

Init ==
    /\ spreadsheetId \in SpreadsheetIds
    /\ serviceKey \in ServiceKeys
    /\ ttl \in 1 .. MaxTTL
    /\ proc = "init"
    /\ now = 0
    /\ sheet \in SheetVersions
    /\ cache = EmptyCache
    /\ lastFetch = [done |-> FALSE, rows |-> <<>>, at |-> 0]
    /\ pc = [t \in Threads |-> "idle"]
    /\ req = [t \in Threads |-> NoRequest]
    /\ snap = [t \in Threads |-> <<>>]
    /\ got = [t \in Threads |-> NoGot]
    /\ exc = [t \in Threads |-> NoExc]
    /\ resp = [t \in Threads |-> NoResp]
    /\ QueryIdle

\* a start-up that does not look at SPREADSHEET_ID
StartupUnchecked ==
    /\ proc = "init"
    /\ proc' = "serving"
    /\ UNCHANGED <<spreadsheetId, serviceKey, ttl, now, sheet, cache, lastFetch,
                   pc, req, snap, got, exc, resp, queryVars>>

\* module load: RuntimeError when SPREADSHEET_ID is unset or empty
Startup ==
    /\ proc = "init"
    /\ proc' = IF ~Truthy(spreadsheetId) THEN "refused" ELSE "serving"
    /\ UNCHANGED <<spreadsheetId, serviceKey, ttl, now, sheet, cache, lastFetch,
                   pc, req, snap, got, exc, resp, queryVars>>

Tick ==
    /\ proc = "serving"
    /\ now < MaxTime(ttl)
    /\ now' = now + 1
    /\ UNCHANGED <<spreadsheetId, serviceKey, ttl, proc, sheet, cache, lastFetch,
                   pc, req, snap, got, exc, resp, queryVars>>

\* somebody edits the spreadsheet
EditSheet ==
    /\ proc = "serving"
    /\ sheet' \in SheetVersions \ {sheet}
    /\ UNCHANGED <<spreadsheetId, serviceKey, ttl, proc, now, cache, lastFetch,
                   pc, req, snap, got, exc, resp, queryVars>>

\* A request arrives on thread t and the handler calls get_all_rows: the
\* cached wrapper looks the entry up; on a hit the rows are returned and the
\* handler answers, on a miss the thread goes on to the fetch.
Request(t, r) ==
    /\ proc = "serving"
    /\ pc[t] = "idle"
    /\ req' = [req EXCEPT ![t] = r]
    /\ exc' = [exc EXCEPT ![t] = NoExc]
    /\ IF cache_hit(cache, now)
       THEN /\ got' = [got EXCEPT ![t] = [has |-> TRUE, rows |-> cache.val, own |-> FALSE,
                                          late |-> now - lastFetch.at > ttl]]
            /\ resp' = [resp EXCEPT ![t] = Handler(r, cache.val)]
            /\ pc' = pc
       ELSE /\ got' = [got EXCEPT ![t] = NoGot]
            /\ resp' = [resp EXCEPT ![t] = NoResp]
            /\ pc' = [pc EXCEPT ![t] = "fetch"]
    /\ UNCHANGED <<spreadsheetId, serviceKey, ttl, proc, now, sheet, cache, lastFetch,
                   snap, queryVars>>

\* get_all_rows, first half: build the client; if that raises, the handler
\* answers 500; otherwise the remote calls go out and read the sheet.
FetchCall(t) ==
    /\ proc = "serving"
    /\ pc[t] = "fetch"
    /\ LET e == get_gspread_client(serviceKey) IN
       IF e.raised
       THEN /\ exc' = [exc EXCEPT ![t] = e]
            /\ resp' = [resp EXCEPT ![t] = http_fetch_failed(e)]
            /\ pc' = [pc EXCEPT ![t] = "idle"]
            /\ snap' = snap
       ELSE /\ snap' = [snap EXCEPT ![t] = sheet]
            /\ pc' = [pc EXCEPT ![t] = "remote"]
            /\ UNCHANGED <<exc, resp>>
    /\ UNCHANGED <<spreadsheetId, serviceKey, ttl, proc, now, sheet, cache, lastFetch,
                   req, got, queryVars>>

\* get_all_rows, second half, success: the records come back, the wrapper
\* stores them in the cache and the handler answers from them.
FetchOk(t) ==
    /\ proc = "serving"
    /\ pc[t] = "remote"
    /\ cache' = cache_store(cache, snap[t], now, ttl)
    /\ lastFetch' = [done |-> TRUE, rows |-> snap[t], at |-> now]
    /\ got' = [got EXCEPT ![t] = [has |-> TRUE, rows |-> snap[t], own |-> TRUE,
                                  late |-> FALSE]]
    /\ resp' = [resp EXCEPT ![t] = Handler(req[t], snap[t])]
    /\ snap' = [snap EXCEPT ![t] = <<>>]
    /\ pc' = [pc EXCEPT ![t] = "idle"]
    /\ UNCHANGED <<spreadsheetId, serviceKey, ttl, proc, now, sheet, req, exc, queryVars>>

\* a failure that also drops the cached entry
FetchFailClears(t, cause) ==
    /\ proc = "serving"
    /\ pc[t] = "remote"
    /\ exc' = [exc EXCEPT ![t] = Raised(<<cause>>, cause)]
    /\ resp' = [resp EXCEPT ![t] = http_fetch_failed(exc'[t])]
    /\ snap' = [snap EXCEPT ![t] = <<>>]
    /\ pc' = [pc EXCEPT ![t] = "idle"]
    /\ cache' = EmptyCache
    /\ UNCHANGED <<spreadsheetId, serviceKey, ttl, proc, now, sheet, lastFetch,
                   req, got, queryVars>>

\* get_all_rows, second half, failure: a remote call raises; nothing is
\* stored and the handler answers 500.
FetchFail(t, cause) ==
    /\ proc = "serving"
    /\ pc[t] = "remote"
    /\ exc' = [exc EXCEPT ![t] = Raised(<<cause>>, cause)]
    /\ resp' = [resp EXCEPT ![t] = http_fetch_failed(exc'[t])]
    /\ snap' = [snap EXCEPT ![t] = <<>>]
    /\ pc' = [pc EXCEPT ![t] = "idle"]
    /\ UNCHANGED <<spreadsheetId, serviceKey, ttl, proc, now, sheet, cache, lastFetch,
                   req, got, queryVars>>

Next ==
    \/ Startup
    \/ Tick
    \/ EditSheet
    \/ \E t \in Threads, r \in Requests : Request(t, r)
    \/ \E t \in Threads : FetchCall(t)
    \/ \E t \in Threads : FetchOk(t)
    \/ \E t \in Threads, cause \in RemoteFailures : FetchFail(t, cause)

Spec == Init /\ [][Next]_vars

(* ------------------------------- SpecQ -------------------------------- *)
ServerIdle ==
    /\ spreadsheetId = S(<<"k", "e", "y">>)
    /\ serviceKey = "valid"
    /\ ttl = 1
    /\ proc = "serving"
    /\ now = 0
    /\ sheet = <<>>
    /\ cache = EmptyCache
    /\ lastFetch = [done |-> FALSE, rows |-> <<>>, at |-> 0]
    /\ pc = [t \in Threads |-> "idle"]
    /\ req = [t \in Threads |-> NoRequest]
    /\ snap = [t \in Threads |-> <<>>]
    /\ got = [t \in Threads |-> NoGot]
    /\ exc = [t \in Threads |-> NoExc]
    /\ resp = [t \in Threads |-> NoResp]

InitQ ==
    /\ ServerIdle
    /\ qrows \in RowSeqs
    /\ qcall = [op |-> "none"]
    /\ qres = NoResp

CallMap(i) ==
    /\ i \in 1 .. Len(qrows)
    /\ qcall' = [op |-> "map", idx |-> i]
    /\ qres' = map_row_to_dog(qrows[i], i)
    /\ UNCHANGED <<qrows, serverVars>>

CallGetDogs(dog_name, owner_name) ==
    /\ qcall' = [op |-> "dogs", dog_name |-> dog_name, owner_name |-> owner_name]
    /\ qres' = get_dogs_body(qrows, dog_name, owner_name)
    /\ UNCHANGED <<qrows, serverVars>>

CallGetDog(dog_id) ==
    /\ qcall' = [op |-> "dog", dog_id |-> dog_id]
    /\ qres' = get_dog_body(qrows, dog_id)
    /\ UNCHANGED <<qrows, serverVars>>

NextQ ==
    \/ \E i \in 1 .. MaxRows : CallMap(i)
    \/ \E dog_name \in DogNameParams, owner_name \in OwnerNameParams :
          CallGetDogs(dog_name, owner_name)
    \/ \E dog_id \in IdParams : CallGetDog(dog_id)

SpecQ == InitQ /\ [][NextQ]_vars

(* ============================== claims ================================ *)
Range(f) == {f[i] : i \in DOMAIN f}

\* some thread completes a call of get_all_rows on the cache lookup alone
\* or leaves the lookup for the fetch
Looked(t) ==
    /\ pc[t] = "idle"
    /\ \/ pc'[t] # "idle"
       \/ got'[t] # got[t]
       \/ req'[t] # req[t]
       \/ exc'[t] # exc[t]

\* C1: a call of get_all_rows made less than one TTL after the last
\* successful fetch returns that fetch's rows from the cache and contacts
\* nothing (the thread never enters the fetch); a call made when no fetch
\* has succeeded yet, or one TTL or more after the last one, starts a fetch.
C1_CacheWindow ==
    [][\A t \in Threads :
          Looked(t) =>
             IF lastFetch.done /\ now - lastFetch.at < ttl
             THEN /\ pc'[t] = "idle"
                  /\ snap'[t] = snap[t]
                  /\ got'[t].has /\ ~got'[t].own
                  /\ got'[t].rows = lastFetch.rows
             ELSE /\ pc'[t] = "fetch"
                  /\ ~got'[t].has]_vars

\* one call was served from the cache, and with the entry now expired the
\* next call has gone on to fetch
C1_Witness ==
    \E t, u \in Threads :
       /\ t # u
       /\ got[t].has /\ ~got[t].own /\ got[t].rows = lastFetch.rows
       /\ cache.has /\ now >= cache.exp
       /\ pc[u] = "fetch"

\* C2: the cache changes only when a fetch succeeds, and then to exactly
\* the rows that fetch returned; a step in which get_all_rows raises leaves
\* the cache as it was, hands no rows to the caller and gives the caller
\* the exception.
C2_FailureKeepsCache ==
    [][/\ cache' # cache =>
             \E t \in Threads :
                /\ pc[t] = "remote" /\ pc'[t] = "idle"
                /\ ~exc'[t].raised
                /\ got'[t].has /\ got'[t].own
                /\ cache'.has /\ cache'.val = snap[t]
       /\ \A t \in Threads :
             (pc[t] # "idle" /\ pc'[t] = "idle" /\ ~got'[t].has) =>
                /\ exc'[t].raised
                /\ cache' = cache
                /\ lastFetch' = lastFetch]_vars

\* a fetch has failed while the cache holds an entry that is still valid
C2_Witness ==
    \E t \in Threads :
       /\ exc[t].raised /\ exc[t].cause \in RemoteFailures
       /\ cache.has /\ now < cache.exp
       /\ cache.val = lastFetch.rows

\* C3: whenever get_all_rows raised during a request, the response is 500
\* with a detail that contains the underlying cause, the thread is free
\* again and the process is still serving.
C3_FetchFailureIs500 ==
    \A t \in Threads :
       exc[t].raised =>
          /\ resp[t].status = 500
          /\ exc[t].cause \in Range(resp[t].detail)
          /\ resp[t].detail[1] = "Failed to read sheet: "
          /\ pc[t] = "idle"
          /\ proc = "serving"

\* one request was answered 500 for revoked credentials and another 200
C3_Witness ==
    \E t, u \in Threads :
       /\ exc[t].raised /\ exc[t].cause = "APIError(revoked credentials)"
       /\ resp[t].status = 500
       /\ ~exc[u].raised /\ got[u].has /\ resp[u].status = 200
       /\ proc = "serving"

C8_MissingConfigFatal ==
    (~Truthy(spreadsheetId) \/ serviceKey = "unset") =>
       /\ proc # "serving"
       /\ \A t \in Threads : resp[t] = NoResp

\* C8 amended: a missing SPREADSHEET_ID is fatal at start-up (the process
\* never serves, no thread ever takes a request or answers); a missing
\* GOOGLE_SERVICE_KEY is not: the process serves and every answer it gives
\* is the 500 of a failed fetch, naming the missing variable.
C8_MissingSheetIdFatal ==
    /\ ~Truthy(spreadsheetId) =>
          /\ proc \in {"init", "refused"}
          /\ \A t \in Threads : pc[t] = "idle" /\ resp[t] = NoResp /\ req[t] = NoRequest
    /\ (Truthy(spreadsheetId) /\ serviceKey = "unset") =>
          \A t \in Threads :
             resp[t] # NoResp =>
                /\ proc = "serving"
                /\ resp[t].status = 500
                /\ exc[t].raised
                /\ exc[t].cause = "RuntimeError('Missing GOOGLE_SERVICE_KEY environment variable')"

\* the process has refused to start for want of SPREADSHEET_ID
C8_Witness == ~Truthy(spreadsheetId) /\ proc = "refused"

\* C10: every 200 or 404 response is the handler's result on rows that
\* get_all_rows returned, fetched by the request itself or at most one TTL
\* before the request read the cache; a request whose fetch failed was
\* handed no rows and is answered 500.
C10_NoExpiredRows ==
    \A t \in Threads :
       /\ resp[t].status \in {200, 404} =>
             /\ got[t].has
             /\ ~got[t].late
             /\ ~exc[t].raised
             /\ resp[t] = Handler(req[t], got[t].rows)
       /\ exc[t].raised => (~got[t].has /\ resp[t].status = 500)

\* with the cached entry expired, one request's refresh failed and was
\* answered 500 while another had been answered from the cache
C10_Witness ==
    \E t, u \in Threads :
       /\ t # u
       /\ cache.has /\ now >= cache.exp
       /\ exc[t].raised /\ resp[t].status = 500
       /\ got[u].has /\ ~got[u].own /\ resp[u].status \in {200, 404}

(* ---------------------- claims on the pure part ----------------------- *)
\* the text a filter is matched against: a null field is the empty string
FieldText(x) == IF x.t = "none" THEN <<>> ELSE str(x)

\* a provided filter occurs, case-insensitively, in the field
Matches(flt, field) ==
    \/ flt.t = "none"
    \/ IsSubstring(lower(flt.v), lower(FieldText(field)))

\* the profiles of the rows, each with its position, that pass both filters
Expected(rows, dog_name, owner_name) ==
    LET keep(i) == /\ Matches(dog_name, row_get(rows[i], "Name"))
                   /\ Matches(owner_name, row_get(rows[i], "Pet owner's name"))
        idxs == SelectSeq([i \in 1 .. Len(rows) |-> i], keep)
    IN  [k \in 1 .. Len(idxs) |-> map_row_to_dog(rows[idxs[k]], idxs[k])]

\* every name cell of the rows is text or absent
TextRows(rows) ==
    \A i \in 1 .. Len(rows) :
       /\ row_get(rows[i], "Name").t # "num"
       /\ row_get(rows[i], "Pet owner's name").t # "num"

\* C5: GET /dogs answers 200 with exactly the profiles that pass every
\* provided filter, in row order, each mapped with its position.
C5_ListFilters ==
    qcall.op = "dogs" =>
       /\ qres.status = 200
       /\ qres.list = Expected(qrows, qcall.dog_name, qcall.owner_name)

\* C5 on rows whose name cells are text or absent
C5_ListFiltersTextRows ==
    (qcall.op = "dogs" /\ TextRows(qrows)) =>
       /\ qres.status = 200
       /\ qres.list = Expected(qrows, qcall.dog_name, qcall.owner_name)

\* the rows whose resolved dog_id string-equals the requested id
Hits(rows, dog_id) == {i \in 1 .. Len(rows) : str(ResolveId(rows[i], i)) = dog_id}

\* C6: GET /dogs/{dog_id} answers the profile of the lowest-positioned row
\* whose resolved dog_id string-equals the id, and 404 exactly when there
\* is no such row.
C6_LookupFirstMatch ==
    qcall.op = "dog" =>
       LET hits == Hits(qrows, qcall.dog_id) IN
       IF hits = {} THEN qres = NotFound
       ELSE LET first == CHOOSE i \in hits : \A j \in hits : i <= j IN
            /\ qres.status = 200
            /\ qres.item = map_row_to_dog(qrows[first], first)
            /\ str(qres.item.dog_id) = qcall.dog_id

\* two rows resolve to the requested id and the lookup answered one
C6_Witness ==
    /\ qcall.op = "dog"
    /\ Cardinality(Hits(qrows, qcall.dog_id)) >= 2
    /\ qres.status = 200

\* C7: the dog_id of a mapped row is a string: the row's own dog_id when
\* that is truthy, else the decimal string of the position.
C7_DogIdIsString ==
    qcall.op = "map" =>
       LET own == row_get(qrows[qcall.idx], "dog_id") IN
       /\ qres.dog_id.t = "str"
       /\ qres.dog_id = IF Truthy(own) THEN own ELSE S(DecimalStr(qcall.idx))

\* C7 without the claim that the value is a string
C7_DogIdResolution ==
    qcall.op = "map" =>
       LET own == row_get(qrows[qcall.idx], "dog_id") IN
       qres.dog_id = IF Truthy(own) THEN own ELSE S(DecimalStr(qcall.idx))

\* the members of a that are also in b, in a's order
Intersection(a, b) == SelectSeq(a, LAMBDA p : \E k \in DOMAIN b : b[k] = p)

\* C9: the result with both filters is the intersection of the results
\* with each filter alone.
C9_FiltersIntersect ==
    qcall.op = "dogs" =>
       LET a == get_dogs_body(qrows, qcall.dog_name, None)
           b == get_dogs_body(qrows, None, qcall.owner_name)
       IN  /\ qres.status = 200 /\ a.status = 200 /\ b.status = 200
           /\ qres.list = Intersection(a.list, b.list)

\* C9 on rows whose name cells are text or absent
C9_FiltersIntersectTextRows ==
    (qcall.op = "dogs" /\ TextRows(qrows)) =>
       LET a == get_dogs_body(qrows, qcall.dog_name, None)
           b == get_dogs_body(qrows, None, qcall.owner_name)
       IN  /\ qres.status = 200 /\ a.status = 200 /\ b.status = 200
           /\ qres.list = Intersection(a.list, b.list)

====
